---- MODULE Spec2Model ----
(***************************************************************************)
(* Verification model of the face-swap repository:                         *)
(*   face_swap.py     FaceSwapPipeline.swap and main   (InsightFace)       *)
(*   face_swap_ml.py  RoopCore and its __main__ block  (raw ONNX runtime)  *)
(*   setup_models.py  download_file and its __main__ loop                  *)
(*                                                                         *)
(* Four specifications share the module:                                   *)
(*   Spec       one run of a command entry point of either pipeline        *)
(*   SpecAlign  RoopCore.norm_crop and the inline 128-pixel alignment      *)
(*   SpecBlend  the paste-back / blend step of RoopCore.swap on pixels     *)
(*   SpecSetup  setup_models.py                                            *)
(* Each leaves the variables of the other three at their idle values.      *)
(***************************************************************************)
EXTENDS Integers, Sequences, FiniteSets, TLC

VARIABLES
    \* ---- Spec: one run of face_swap.py or face_swap_ml.py
    variant,      \* which script runs
    files,        \* the two input files on disk
    pc,           \* position of the run
    loc,          \* local variables of swap(), by their source names
    heap,         \* image arrays of face_swap.py (swap() holds references)
    log,          \* calls made so far, in order
    output,       \* what has been written to the output path
    ret,          \* swap()'s return value
    exitStatus,   \* process exit status
    \* ---- SpecAlign
    a_pc, a_landmark, a_image_size, a_result,
    \* ---- SpecBlend
    b_pc, b_target_img, b_swapped, b_warped_face, b_warped_mask, b_final,
    \* ---- SpecSetup
    d_pc, d_fs, d_idx, d_entry, d_body, d_sent, d_requests, d_outcome

pipeVars  == <<variant, files, pc, loc, heap, log, output, ret, exitStatus>>
alignVars == <<a_pc, a_landmark, a_image_size, a_result>>
blendVars == <<b_pc, b_target_img, b_swapped, b_warped_face, b_warped_mask, b_final>>
setupVars == <<d_pc, d_fs, d_idx, d_entry, d_body, d_sent, d_requests, d_outcome>>
vars == <<pipeVars, alignVars, blendVars, setupVars>>

(***************************************************************************)
(* Bounds of the model.                                                    *)
(***************************************************************************)
\* most faces an input image shows
MaxFaces == 2
\* longest landmark sequence handed to norm_crop
MaxLandmarks == 6
\* most pixels (rows * cols) of a target image in SpecBlend
MaxPix == 2
\* most chunks a download response carries
MaxChunks == 2

(***************************************************************************)
(* Values shared by the specifications.                                    *)
(***************************************************************************)
\* Python's None
None == [none |-> TRUE]
\* an exception raised by OpenCV (cv2.error)
CvError == [error |-> "cv2.error"]

RECURSIVE GCD(_, _)
GCD(a, b) == IF b = 0 THEN a ELSE GCD(b, a % b)

\* the rational n/d in lowest terms
Rat(n, d) == LET g == GCD(n, d) IN <<n \div g, d \div g>>

\* a numpy array of 2-D points
Arr(points) == [pts |-> points]

\* a point array multiplied by the scalar num/den
Scale(a, num, den) ==
    Arr([i \in DOMAIN a.pts |->
            <<Rat(a.pts[i][1][1] * num, a.pts[i][1][2] * den),
              Rat(a.pts[i][2][1] * num, a.pts[i][2][2] * den)>>])

\* the reference 5 points for a 112x112 crop
ARC_FACE_DST ==
    Arr(<< <<Rat(382946, 10000), Rat(516963, 10000)>>,
           <<Rat(735318, 10000), Rat(515014, 10000)>>,
           <<Rat(560252, 10000), Rat(717366, 10000)>>,
           <<Rat(415493, 10000), Rat(923655, 10000)>>,
           <<Rat(707299, 10000), Rat(922041, 10000)>> >>)

\* cv2.estimateAffinePartial2D(from, to, method=LMEDS)[0]: OpenCV rejects point
\* sets of different sizes (and None); otherwise the result is the similarity transform
\* fitted from `from` to `to`, kept symbolically by what it was fitted to.
estimateAffinePartial2D(from, to) ==
    IF from = None \/ Len(from.pts) # Len(to.pts)
    THEN CvError
    ELSE [kind |-> "affine", from |-> from, to |-> to, method |-> "LMEDS", inverted |-> FALSE]

\* cv2.invertAffineTransform
invertAffineTransform(M) == [M EXCEPT !.inverted = ~M.inverted]

\* cv2.warpAffine(img, M, dsize): dsize is (width, height), the result has
\* dsize[2] rows and dsize[1] columns
warpAffine(img, M, dsize) ==
    [kind |-> "warped", of |-> img, M |-> M, rows |-> dsize[2], cols |-> dsize[1]]

\* a landmark sequence cut or zero-filled to n points
PadTo(landmark, n) ==
    Arr([i \in 1..n |->
            IF i <= Len(landmark.pts) THEN landmark.pts[i] ELSE <<Rat(0, 1), Rat(0, 1)>>])

\* norm_crop as it would be if it padded a short landmark array (faulty variant)
norm_crop_padding(img, landmark, image_size) ==
    LET M == estimateAffinePartial2D(PadTo(landmark, Len(ARC_FACE_DST.pts)), ARC_FACE_DST)
    IN  IF M = CvError
        THEN CvError
        ELSE [warped |-> warpAffine(img, M, <<image_size, image_size>>), M |-> M]

\* RoopCore.norm_crop(img, landmark, image_size)
norm_crop(img, landmark, image_size) ==
    LET M == estimateAffinePartial2D(landmark, ARC_FACE_DST)
    IN  IF M = CvError
        THEN CvError
        ELSE [warped |-> warpAffine(img, M, <<image_size, image_size>>), M |-> M]

\* dst_128 of RoopCore.swap
dst_128 == Scale(ARC_FACE_DST, 128, 112)


(***************************************************************************)
(* Spec: one run of a command entry point.                                 *)
(***************************************************************************)
Variants == {"face_swap", "face_swap_ml"}

\* what an input path holds: an unreadable file, or an image showing nfaces faces
FileStates ==
    {[readable |-> FALSE, nfaces |-> 0]}
        \cup {[readable |-> TRUE, nfaces |-> n] : n \in 0..MaxFaces}

\* cv2.imread(path): None when the file cannot be read
imread(name) ==
    IF files[name].readable
    THEN [name |-> name, nfaces |-> files[name].nfaces, replaced |-> {}]
    ELSE None

\* the 5 key points MediaPipe's mesh gives for a detected face, in pixels
FaceKps ==
    Arr(<< <<Rat(30, 1), Rat(40, 1)>>, <<Rat(70, 1), Rat(40, 1)>>,
           <<Rat(50, 1), Rat(60, 1)>>, <<Rat(35, 1), Rat(80, 1)>>,
           <<Rat(65, 1), Rat(80, 1)>> >>)

\* RoopCore.get_landmarks(img_bgr): cvtColor raises on None; None when the
\* detector finds no face; else the 5 points of the first face
get_landmarks(img_bgr) ==
    IF img_bgr = None THEN CvError
    ELSE IF img_bgr.nfaces = 0 THEN None
    ELSE FaceKps

\* RoopCore.get_embedding(face_img), after a successful ArcFace inference
get_embedding(face_img) ==
    [kind |-> "embedding", of |-> face_img, normalized |-> TRUE]

\* RoopCore.color_transfer(source, target)
color_transfer(source, target) ==
    [source EXCEPT !.stages = Append(@, "color_transfer"), !.ref = target]

\* RoopCore.apply_sharpening(img)
apply_sharpening(img) ==
    [img EXCEPT !.stages = Append(@, "sharpen")]

\* one entry of the call log
Event(op, img, arg) == [op |-> op, img |-> img, arg |-> arg]

MlLocals ==
    [source_img |-> None, target_img |-> None, src_kps |-> None, align_src |-> None,
     source_embed |-> None, tgt_kps |-> None, M_128 |-> None, align_tgt |-> None,
     swapped |-> None, final |-> None]

FsLocals ==
    [src_img |-> None, tgt_img |-> None, src_faces |-> <<>>, tgt_faces |-> <<>>,
     src_face |-> None, result |-> None, i |-> 0]

\* a reference to the array heap[n]
Ref(n) == [ref |-> n]

AlignIdle == a_pc = "idle" /\ a_landmark = None /\ a_image_size = 0 /\ a_result = None
BlendIdle ==
    /\ b_pc = "idle" /\ b_target_img = None /\ b_swapped = None
    /\ b_warped_face = None /\ b_warped_mask = None /\ b_final = None
SetupIdle ==
    /\ d_pc = "idle" /\ d_fs = <<>> /\ d_idx = 0 /\ d_entry = None
    /\ d_body = <<>> /\ d_sent = 0 /\ d_requests = <<>> /\ d_outcome = "none"
PipeIdle ==
    /\ variant = "none" /\ files = <<>> /\ pc = "idle" /\ loc = None /\ heap = <<>>
    /\ log = <<>> /\ output = None /\ ret = "none" /\ exitStatus = -1

\* the pipeline object is constructed, the models are loaded, swap() is about
\* to be called on the three paths
Init ==
    /\ variant \in Variants
    /\ files \in [{"source", "target"} -> FileStates]
    /\ pc = "read"
    /\ loc = IF variant = "face_swap_ml" THEN MlLocals ELSE FsLocals
    /\ heap = <<>>
    /\ log = <<>>
    /\ output = None
    /\ ret = "none"
    /\ exitStatus = -1
    /\ AlignIdle /\ BlendIdle /\ SetupIdle

\* an exception nobody catches: traceback, exit status 1, swap() never returns
Raise ==
    /\ pc' = "exit"
    /\ exitStatus' = 1
    /\ UNCHANGED <<ret, output, heap>>

\* swap() returns False
ReturnFalse ==
    /\ pc' = "returned"
    /\ ret' = "False"
    /\ UNCHANGED <<exitStatus, output, heap>>

Goto(l) ==
    /\ pc' = l
    /\ UNCHANGED <<ret, exitStatus, output, heap>>

(* ------------------------- face_swap_ml.py ---------------------------- *)
Ml(l) == variant = "face_swap_ml" /\ pc = l

\* lines 120-121
MlRead ==
    /\ Ml("read")
    /\ loc' = [loc EXCEPT !.source_img = imread("source"), !.target_img = imread("target")]
    /\ Goto("src_landmarks")
    /\ UNCHANGED <<variant, files, log>>

\* lines 124-125
MlSrcLandmarks ==
    /\ Ml("src_landmarks")
    /\ LET kps == get_landmarks(loc.source_img)
       IN  IF kps = CvError
           THEN Raise /\ UNCHANGED <<loc, log>>
           ELSE /\ loc' = [loc EXCEPT !.src_kps = kps]
                /\ log' = Append(log, Event("get_landmarks", loc.source_img, kps))
                /\ IF kps = None THEN ReturnFalse ELSE Goto("src_align")
    /\ UNCHANGED <<variant, files>>

\* line 127
MlSrcAlign ==
    /\ Ml("src_align")
    /\ LET r == norm_crop(loc.source_img, loc.src_kps, 112)
       IN  /\ log' = Append(log, Event("align", loc.source_img, loc.src_kps))
           /\ IF r = CvError
              THEN Raise /\ UNCHANGED loc
              ELSE loc' = [loc EXCEPT !.align_src = r.warped] /\ Goto("src_embed")
    /\ UNCHANGED <<variant, files>>

\* line 128; the ArcFace inference may fail
MlSrcEmbed ==
    /\ Ml("src_embed")
    /\ log' = Append(log, Event("arcface.run", loc.align_src, None))
    /\ \E ok \in BOOLEAN :
          IF ok
          THEN loc' = [loc EXCEPT !.source_embed = get_embedding(loc.align_src)]
               /\ Goto("tgt_landmarks")
          ELSE Raise /\ UNCHANGED loc
    /\ UNCHANGED <<variant, files>>

\* faulty variant: the None test of line 132 left out
MlTgtLandmarksUnchecked ==
    /\ Ml("tgt_landmarks")
    /\ LET kps == get_landmarks(loc.target_img)
       IN  IF kps = CvError
           THEN Raise /\ UNCHANGED <<loc, log>>
           ELSE /\ loc' = [loc EXCEPT !.tgt_kps = kps]
                /\ log' = Append(log, Event("get_landmarks", loc.target_img, kps))
                /\ Goto("tgt_align")
    /\ UNCHANGED <<variant, files>>

\* lines 131-132
MlTgtLandmarks ==
    /\ Ml("tgt_landmarks")
    /\ LET kps == get_landmarks(loc.target_img)
       IN  IF kps = CvError
           THEN Raise /\ UNCHANGED <<loc, log>>
           ELSE /\ loc' = [loc EXCEPT !.tgt_kps = kps]
                /\ log' = Append(log, Event("get_landmarks", loc.target_img, kps))
                /\ IF kps = None THEN ReturnFalse ELSE Goto("tgt_align")
    /\ UNCHANGED <<variant, files>>

\* lines 135-138
MlTgtAlign ==
    /\ Ml("tgt_align")
    /\ LET M == estimateAffinePartial2D(loc.tgt_kps, dst_128)
       IN  /\ log' = Append(log, Event("align", loc.target_img, loc.tgt_kps))
           /\ IF M = CvError
              THEN Raise /\ UNCHANGED loc
              ELSE /\ loc' = [loc EXCEPT !.M_128 = M,
                                         !.align_tgt = warpAffine(loc.target_img, M, <<128, 128>>)]
                   /\ Goto("predict")
    /\ UNCHANGED <<variant, files>>

\* faulty variant: the aligned crop is written to the output path first
MlPredictWritesCropFirst ==
    /\ Ml("predict")
    /\ log' = log \o <<Event("imwrite", loc.align_tgt, None),
                       Event("inswapper.run", loc.align_tgt, loc.source_embed)>>
    /\ \E ok \in BOOLEAN :
          IF ok
          THEN /\ loc' = [loc EXCEPT !.swapped =
                            [kind |-> "face", stages |-> <<"generated">>, ref |-> None]]
               /\ pc' = "color_transfer"
               /\ output' = loc.align_tgt
               /\ UNCHANGED <<ret, exitStatus, heap>>
          ELSE /\ pc' = "exit"
               /\ exitStatus' = 1
               /\ output' = loc.align_tgt
               /\ UNCHANGED <<loc, ret, heap>>
    /\ UNCHANGED <<variant, files>>

\* lines 141-154; the Inswapper inference may fail
MlPredict ==
    /\ Ml("predict")
    /\ log' = Append(log, Event("inswapper.run", loc.align_tgt, loc.source_embed))
    /\ \E ok \in BOOLEAN :
          IF ok
          THEN /\ loc' = [loc EXCEPT !.swapped =
                            [kind |-> "face", stages |-> <<"generated">>, ref |-> None]]
               /\ Goto("color_transfer")
          ELSE Raise /\ UNCHANGED loc
    /\ UNCHANGED <<variant, files>>

\* faulty variant: sharpening applied before the color transfer
MlColorTransferSharpenFirst ==
    /\ Ml("color_transfer")
    /\ loc' = [loc EXCEPT !.swapped = color_transfer(apply_sharpening(loc.swapped), loc.align_tgt)]
    /\ log' = log \o <<Event("apply_sharpening", loc.swapped, None),
                       Event("color_transfer", apply_sharpening(loc.swapped), loc.align_tgt)>>
    /\ Goto("paste_back")
    /\ UNCHANGED <<variant, files>>

\* line 158
MlColorTransfer ==
    /\ Ml("color_transfer")
    /\ loc' = [loc EXCEPT !.swapped = color_transfer(loc.swapped, loc.align_tgt)]
    /\ log' = Append(log, Event("color_transfer", loc.swapped, loc.align_tgt))
    /\ Goto("sharpen")
    /\ UNCHANGED <<variant, files>>

\* line 161
MlSharpen ==
    /\ Ml("sharpen")
    /\ loc' = [loc EXCEPT !.swapped = apply_sharpening(loc.swapped)]
    /\ log' = Append(log, Event("apply_sharpening", loc.swapped, None))
    /\ Goto("paste_back")
    /\ UNCHANGED <<variant, files>>

\* lines 164-179 (SpecBlend follows the same lines pixel by pixel)
MlPasteBack ==
    /\ Ml("paste_back")
    /\ loc' = [loc EXCEPT !.final =
                 [kind |-> "composite", face |-> loc.swapped, target |-> loc.target_img,
                  M |-> invertAffineTransform(loc.M_128)]]
    /\ log' = Append(log, Event("blend", loc.swapped, loc.target_img))
    /\ Goto("write")
    /\ UNCHANGED <<variant, files>>

\* lines 181-183
MlWrite ==
    /\ Ml("write")
    /\ output' = loc.final
    /\ log' = Append(log, Event("imwrite", loc.final, None))
    /\ ret' = "True"
    /\ pc' = "returned"
    /\ UNCHANGED <<variant, files, loc, heap, exitStatus>>

\* lines 192-193: the value swap() returns is dropped, the script ends normally
MlExit ==
    /\ Ml("returned")
    /\ pc' = "exit"
    /\ exitStatus' = 0
    /\ UNCHANGED <<variant, files, loc, heap, log, output, ret>>


(* --------------------------- face_swap.py ----------------------------- *)
Fs(l) == variant = "face_swap" /\ pc = l

\* the faces FaceAnalysis.get returns for an image, in detection order
Faces(img) == [k \in 1..img.nfaces |-> [img |-> img.name, idx |-> k]]

\* the calls FaceAnalysis.get(img) makes (buffalo_l: detection + embeddings):
\* one detection on the image, then the recognition model on every face found
AppGetCalls(img) ==
    <<Event("detect", img, None)>>
        \o [k \in 1..img.nfaces |-> Event("embed", img, Faces(img)[k])]

\* the image INSwapper.get(img, target_face, source_face, paste_back=True) gives
SwapperGet(img, target_face, source_face) ==
    [img EXCEPT !.replaced = @ \cup {<<target_face.idx, source_face.idx>>}]

\* lines 57-58
FsRead ==
    /\ Fs("read")
    /\ LET s == imread("source")
           t == imread("target")
           hs == IF s = None THEN <<>> ELSE <<s>>
       IN  /\ heap' = IF t = None THEN hs ELSE Append(hs, t)
           /\ loc' = [loc EXCEPT
                        !.src_img = IF s = None THEN None ELSE Ref(1),
                        !.tgt_img = IF t = None THEN None ELSE Ref(Len(hs) + 1)]
    /\ pc' = "check_loaded"
    /\ UNCHANGED <<variant, files, log, output, ret, exitStatus>>

\* lines 60-66
FsCheckLoaded ==
    /\ Fs("check_loaded")
    /\ IF loc.src_img = None \/ loc.tgt_img = None
       THEN ReturnFalse
       ELSE Goto("detect_src")
    /\ UNCHANGED <<variant, files, loc, log>>

\* line 70; an inference inside FaceAnalysis.get may fail
FsDetectSrc ==
    /\ Fs("detect_src")
    /\ log' = log \o AppGetCalls(heap[loc.src_img.ref])
    /\ \E ok \in BOOLEAN :
          IF ok
          THEN loc' = [loc EXCEPT !.src_faces = Faces(heap[loc.src_img.ref])]
               /\ Goto("detect_tgt")
          ELSE Raise /\ UNCHANGED loc
    /\ UNCHANGED <<variant, files>>

\* line 71
FsDetectTgt ==
    /\ Fs("detect_tgt")
    /\ log' = log \o AppGetCalls(heap[loc.tgt_img.ref])
    /\ \E ok \in BOOLEAN :
          IF ok
          THEN loc' = [loc EXCEPT !.tgt_faces = Faces(heap[loc.tgt_img.ref])]
               /\ Goto("check_faces")
          ELSE Raise /\ UNCHANGED loc
    /\ UNCHANGED <<variant, files>>

\* faulty variant: result = tgt_img, without the copy
FsCheckFacesNoCopy ==
    /\ Fs("check_faces")
    /\ IF Len(loc.src_faces) = 0 \/ Len(loc.tgt_faces) = 0
       THEN ReturnFalse /\ UNCHANGED loc
       ELSE /\ loc' = [loc EXCEPT !.src_face = loc.src_faces[1],
                                  !.result = loc.tgt_img,
                                  !.i = 1]
            /\ pc' = "swap_loop"
            /\ UNCHANGED <<heap, ret, exitStatus, output>>
    /\ UNCHANGED <<variant, files, log>>

\* lines 73-87: the no-face returns, then src_face and result = tgt_img.copy()
FsCheckFaces ==
    /\ Fs("check_faces")
    /\ IF Len(loc.src_faces) = 0 \/ Len(loc.tgt_faces) = 0
       THEN ReturnFalse /\ UNCHANGED loc
       ELSE /\ heap' = Append(heap, heap[loc.tgt_img.ref])
            /\ loc' = [loc EXCEPT !.src_face = loc.src_faces[1],
                                  !.result = Ref(Len(heap) + 1),
                                  !.i = 1]
            /\ pc' = "swap_loop"
            /\ UNCHANGED <<ret, exitStatus, output>>
    /\ UNCHANGED <<variant, files, log>>

\* lines 90-97, one iteration.  The swapper is a library call: whether it
\* writes into the array it is given or returns a new one is its own business,
\* and both are allowed here.  Its inference may fail.
FsSwapFace ==
    /\ Fs("swap_loop")
    /\ loc.i <= Len(loc.tgt_faces)
    /\ LET tgt_face == loc.tgt_faces[loc.i]
           got == SwapperGet(heap[loc.result.ref], tgt_face, loc.src_face)
       IN  /\ log' = Append(log, Event("swapper.get", heap[loc.result.ref],
                                       [ref |-> loc.result, tgt_face |-> tgt_face,
                                        src_face |-> loc.src_face]))
           /\ \E ok \in BOOLEAN, inplace \in BOOLEAN :
                 IF ~ok
                 THEN Raise /\ UNCHANGED loc
                 ELSE /\ IF inplace
                         THEN /\ heap' = [heap EXCEPT ![loc.result.ref] = got]
                              /\ loc' = [loc EXCEPT !.i = @ + 1]
                         ELSE /\ heap' = Append(heap, got)
                              /\ loc' = [loc EXCEPT !.result = Ref(Len(heap) + 1), !.i = @ + 1]
                      /\ pc' = IF loc.i = Len(loc.tgt_faces) THEN "write" ELSE "swap_loop"
                      /\ UNCHANGED <<ret, exitStatus, output>>
    /\ UNCHANGED <<variant, files>>

\* lines 99-110; os.makedirs may fail
FsWrite ==
    /\ Fs("write")
    /\ \E ok \in BOOLEAN :
          IF ok
          THEN /\ output' = heap[loc.result.ref]
               /\ log' = log \o <<Event("makedirs", None, None),
                                  Event("imwrite", heap[loc.result.ref], None)>>
               /\ ret' = "True"
               /\ pc' = "returned"
               /\ UNCHANGED <<heap, exitStatus>>
          ELSE /\ log' = Append(log, Event("makedirs", None, None))
               /\ Raise
    /\ UNCHANGED <<variant, files, loc>>

\* lines 125-128
FsExit ==
    /\ Fs("returned")
    /\ pc' = "exit"
    /\ exitStatus' = IF ret = "True" THEN 0 ELSE 1
    /\ UNCHANGED <<variant, files, loc, heap, log, output, ret>>

PipeOnly == UNCHANGED <<alignVars, blendVars, setupVars>>

Next ==
    \/ MlRead /\ PipeOnly
    \/ MlSrcLandmarks /\ PipeOnly
    \/ MlSrcAlign /\ PipeOnly
    \/ MlSrcEmbed /\ PipeOnly
    \/ MlTgtLandmarks /\ PipeOnly
    \/ MlTgtAlign /\ PipeOnly
    \/ MlPredict /\ PipeOnly
    \/ MlColorTransfer /\ PipeOnly
    \/ MlSharpen /\ PipeOnly
    \/ MlPasteBack /\ PipeOnly
    \/ MlWrite /\ PipeOnly
    \/ MlExit /\ PipeOnly
    \/ FsRead /\ PipeOnly
    \/ FsCheckLoaded /\ PipeOnly
    \/ FsDetectSrc /\ PipeOnly
    \/ FsDetectTgt /\ PipeOnly
    \/ FsCheckFaces /\ PipeOnly
    \/ FsSwapFace /\ PipeOnly
    \/ FsWrite /\ PipeOnly
    \/ FsExit /\ PipeOnly

Spec == Init /\ [][Next]_vars


(***************************************************************************)
(* Claims checked under Spec.                                              *)
(***************************************************************************)
Ops(S) == SelectSeq(log, LAMBDA e : e.op \in S)

IsPrefix(s, t) == Len(s) <= Len(t) /\ \A i \in 1..Len(s) : s[i] = t[i]

\* calls of the embedding model or of the swap model
InferenceOps == {"embed", "arcface.run", "inswapper.run", "swapper.get"}

\* an input without a usable face: unreadable, or readable with no face
NoInput(name) == ~files[name].readable \/ files[name].nfaces = 0

\* C1: a run of either command entry point on inputs of which one cannot be
\* read or shows no face ends with a nonzero exit status.
C1_NonzeroExitOnBadInput ==
    (pc = "exit" /\ (NoInput("source") \/ NoInput("target"))) => exitStatus # 0

\* C2: when the source image is readable and shows no face, no embedding-model
\* or swap-model inference is ever called in the run, and the process ends with
\* a nonzero exit status.
C2_NoFaceSourceAbortsBeforeInference ==
    (files["source"].readable /\ files["source"].nfaces = 0) =>
        /\ Ops(InferenceOps) = <<>>
        /\ pc = "exit" => exitStatus # 0

\* get_landmarks has returned None in this run
LandmarksNone == \E i \in DOMAIN log : log[i].op = "get_landmarks" /\ log[i].arg = None

\* C3 as stated: in a run of RoopCore.swap in which get_landmarks returns None
\* for the source or the target, swap returns False and the Aligner is never
\* invoked during that run.
C3_NoAlignerInNoFaceRun ==
    (variant = "face_swap_ml" /\ LandmarksNone) =>
        ret = "False" /\ Ops({"align"}) = <<>>

\* C3 as amended: in a run of RoopCore.swap in which get_landmarks returns None,
\* swap returns False at once (nothing is called after that get_landmarks), and
\* the Aligner is never invoked on an image without a detectable face: every
\* alignment is of an image whose landmarks were found before, so a faceless
\* source means no alignment at all and a faceless target means the only
\* alignment of the run is norm_crop on the source.
C3_NoAlignerOnFacelessImage ==
    variant = "face_swap_ml" =>
        /\ LandmarksNone =>
              /\ ret = "False"
              /\ pc \in {"returned", "exit"}
              /\ log[Len(log)].op = "get_landmarks" /\ log[Len(log)].arg = None
        /\ \A j \in DOMAIN log :
              log[j].op = "align" =>
                  /\ log[j].img # None
                  /\ log[j].img.nfaces >= 1
                  /\ \E i \in 1..(j - 1) :
                        /\ log[i].op = "get_landmarks"
                        /\ log[i].img = log[j].img
                        /\ log[i].arg # None
        /\ (files["source"].readable /\ files["source"].nfaces = 0) =>
              Ops({"align"}) = <<>>
        /\ (files["target"].readable /\ files["target"].nfaces = 0) =>
              \A j \in DOMAIN log : log[j].op = "align" => log[j].img.name = "source"

\* a run that aligned the source and then found no face in the target
C3_Witness ==
    /\ variant = "face_swap_ml"
    /\ ret = "False"
    /\ \E j \in DOMAIN log : log[j].op = "align" /\ log[j].img.name = "source"
    /\ log[Len(log)].op = "get_landmarks"
    /\ log[Len(log)].img.name = "target"
    /\ log[Len(log)].arg = None

\* the image a complete run writes
CompleteOutput ==
    IF variant = "face_swap_ml"
    THEN /\ output.kind = "composite"
         /\ output.face.stages = <<"generated", "color_transfer", "sharpen">>
         /\ output.target = imread("target")
    ELSE /\ files["target"].nfaces >= 1
         /\ output.replaced = {<<k, 1>> : k \in 1..files["target"].nfaces}

\* C4: in both variants the output path is written once, as the last call of a
\* run whose every stage has completed, and swap() then returns True; a run that
\* ends on an unreadable image, a no-face outcome or a failed inference has
\* written nothing.
C4_AllOrNothing ==
    /\ output # None =>
          /\ ret = "True"
          /\ pc \in {"returned", "exit"}
          /\ Len(Ops({"imwrite"})) = 1
          /\ log[Len(log)].op = "imwrite"
          /\ CompleteOutput
    /\ Ops({"imwrite"}) # <<>> => output # None
    /\ (pc = "exit" /\ ret # "True") => output = None

\* a run whose swap-model inference failed, after every earlier stage ran
C4_Witness ==
    /\ pc = "exit"
    /\ ret = "none"
    /\ log # <<>>
    /\ log[Len(log)].op \in {"inswapper.run", "swapper.get"}
    /\ output = None

\* C8: in face_swap.py's swap(), the k-th swapper call is on the k-th detected
\* target face, with the first source face, on the image the previous call
\* returned (the first on a copy of the target, never on the loaded target
\* array itself); a written image has all N >= 1 target faces replaced, after
\* exactly N calls; the loaded target array keeps its content.
C8_SwapEveryTargetFace ==
    variant = "face_swap" =>
        LET swaps == Ops({"swapper.get"})
            N == Len(loc.tgt_faces)
        IN  /\ Len(swaps) <= N
            /\ \A k \in 1..Len(swaps) :
                  /\ swaps[k].arg.tgt_face = loc.tgt_faces[k]
                  /\ swaps[k].arg.src_face = loc.src_faces[1]
                  /\ swaps[k].arg.ref # loc.tgt_img
                  /\ swaps[k].img =
                        [imread("target") EXCEPT !.replaced = {<<j, 1>> : j \in 1..(k - 1)}]
            /\ output # None =>
                  /\ N >= 1
                  /\ Len(swaps) = N
                  /\ output.replaced = {<<j, 1>> : j \in 1..N}
            /\ loc.tgt_img # None => heap[loc.tgt_img.ref] = imread("target")

\* a written image of a target with at least two faces
C8_Witness ==
    /\ variant = "face_swap"
    /\ output # None
    /\ Len(loc.tgt_faces) >= 2
    /\ Len(Ops({"swapper.get"})) = Len(loc.tgt_faces)

PostOrder == <<"inswapper.run", "color_transfer", "apply_sharpening", "blend">>

\* C9: in RoopCore.swap the post-processing calls happen in the order swap
\* model, color transfer, sharpening, blend; color transfer works on the
\* generated face against the aligned target crop, sharpening on the
\* color-matched face, and the blend receives the color-matched, then sharpened
\* face.
C9_FixedStageOrder ==
    variant = "face_swap_ml" =>
        LET post == Ops({PostOrder[i] : i \in 1..4})
        IN  /\ IsPrefix([i \in 1..Len(post) |-> post[i].op], PostOrder)
            /\ \A i \in 1..Len(post) :
                  /\ post[i].op = "color_transfer" =>
                        /\ post[i].img.stages = <<"generated">>
                        /\ post[i].arg = loc.align_tgt
                  /\ post[i].op = "apply_sharpening" =>
                        post[i].img.stages = <<"generated", "color_transfer">>
                  /\ post[i].op = "blend" =>
                        /\ post[i].img.stages = <<"generated", "color_transfer", "sharpen">>
                        /\ post[i].img.ref = loc.align_tgt

\* a run that reached the blend
C9_Witness ==
    /\ variant = "face_swap_ml"
    /\ Ops({"blend"}) # <<>>
    /\ loc.final # None


(***************************************************************************)
(* SpecAlign: the Aligner of face_swap_ml.py on its own.  norm_crop is     *)
(* called on a landmark sequence of any length with either crop size; the  *)
(* inline alignment of swap() is its 128-pixel counterpart.                *)
(***************************************************************************)
CropSizes == {112, 128}

\* the points a landmark may sit on
LandmarkPts == { <<Rat(30, 1), Rat(40, 1)>>, <<Rat(70, 1), Rat(45, 1)>> }

LandmarkSets == { Arr(s) : s \in UNION { [1..n -> LandmarkPts] : n \in 0..MaxLandmarks } }

AlignImg == [name |-> "img", nfaces |-> 1, replaced |-> {}]

InitAlign ==
    /\ a_pc = "call"
    /\ a_landmark \in LandmarkSets
    /\ a_image_size \in CropSizes
    /\ a_result = None
    /\ PipeIdle /\ BlendIdle /\ SetupIdle

\* a call norm_crop(img, landmark, image_size)
AlignNormCrop ==
    /\ a_pc = "call"
    /\ a_result' = norm_crop(AlignImg, a_landmark, a_image_size)
    /\ a_pc' = "norm_crop"
    /\ UNCHANGED <<a_landmark, a_image_size>>

\* lines 135-138 of swap(): the alignment to the 128-pixel pose
AlignInline ==
    /\ a_pc = "call"
    /\ a_image_size = 128
    /\ LET M_128 == estimateAffinePartial2D(a_landmark, dst_128)
       IN  a_result' = IF M_128 = CvError
                       THEN CvError
                       ELSE [warped |-> warpAffine(AlignImg, M_128, <<128, 128>>), M |-> M_128]
    /\ a_pc' = "inline"
    /\ UNCHANGED <<a_landmark, a_image_size>>

AlignOnly == UNCHANGED <<pipeVars, blendVars, setupVars>>

NextAlign ==
    \/ AlignNormCrop /\ AlignOnly
    \/ AlignInline /\ AlignOnly

SpecAlign == InitAlign /\ [][NextAlign]_vars

\* C6: the transform norm_crop returns is fitted to the reference pose scaled
\* to the requested crop size: ARC_FACE_DST for 112, and for 128 ARC_FACE_DST
\* scaled by 128/112, the destination points of swap()'s own 128-pixel alignment.
C6_NormCropDstScaledToCropSize ==
    (a_pc = "norm_crop" /\ a_result # CvError) =>
        /\ a_result.M.to = Scale(ARC_FACE_DST, a_image_size, 112)
        /\ a_image_size = 128 => a_result.M.to = dst_128

\* C7: norm_crop on fewer than 5 points ends in an error and returns no crop
\* and no transform; a transform it does return was fitted from the landmark
\* sequence exactly as given, never from a padded one.
C7_FewerThanFivePointsRejected ==
    a_pc = "norm_crop" =>
        /\ Len(a_landmark.pts) < 5 => a_result = CvError
        /\ a_result # CvError =>
              /\ a_result.M.from = a_landmark
              /\ Len(a_result.M.from.pts) = 5

\* norm_crop was called on 4 points and raised
C7_Witness ==
    /\ a_pc = "norm_crop"
    /\ Len(a_landmark.pts) = 4
    /\ a_result = CvError


(***************************************************************************)
(* SpecBlend: lines 164-179 of RoopCore.swap on pixels.  Images are small  *)
(* arrays of BGR pixels; the warped face and the warped mask are whatever  *)
(* cv2.warpAffine produces at the requested size.                          *)
(***************************************************************************)
\* BGR values of target pixels and of warped-face pixels (0,0,0 is also what
\* warpAffine fills in outside the crop)
TargetColors == { <<0, 100, 255>>, <<255, 255, 255>>, <<7, 7, 7>> }
FaceColors == { <<0, 0, 0>>, <<255, 0, 100>>, <<1, 255, 255>> }
\* values of warped-mask pixels: outside, on the soft edge, inside
MaskVals == {0, 128, 255}

Shapes == { sh \in (1..MaxPix) \X (1..MaxPix) : sh[1] * sh[2] <= MaxPix }

Pos(rows, cols) == (1..rows) \X (1..cols)

\* the arrays of one shape with pixels from a set
Arrays(rows, cols, vals) ==
    { [rows |-> rows, cols |-> cols, px |-> f] : f \in [Pos(rows, cols) -> vals] }

\* the generated, color-matched and sharpened 128x128 face
BlendFace == [kind |-> "face", stages |-> <<"generated", "color_transfer", "sharpen">>]

\* numpy's ValueError for operands that do not broadcast together
ValueError == [error |-> "ValueError"]

InitBlend ==
    /\ b_pc = "paste_back"
    /\ b_target_img \in UNION { Arrays(sh[1], sh[2], TargetColors) : sh \in Shapes }
    /\ b_swapped = BlendFace
    /\ b_warped_face = None
    /\ b_warped_mask = None
    /\ b_final = None
    /\ PipeIdle /\ AlignIdle /\ SetupIdle

\* lines 164-173: both warps are asked for at dsize (w, h)
BlendWarp ==
    /\ b_pc = "paste_back"
    /\ LET h == b_target_img.rows
           w == b_target_img.cols
           inv_M == invertAffineTransform(estimateAffinePartial2D(FaceKps, dst_128))
           wf == warpAffine(b_swapped, inv_M, <<w, h>>)
           wm == warpAffine(None, inv_M, <<w, h>>)
       IN  /\ b_warped_face' \in Arrays(wf.rows, wf.cols, FaceColors)
           /\ b_warped_mask' \in Arrays(wm.rows, wm.cols, MaskVals)
    /\ b_pc' = "blend"
    /\ UNCHANGED <<b_target_img, b_swapped, b_final>>

\* faulty variant: the two weights exchanged
BlendValuesSwapped(f, m, t) ==
    LET s == t * m + f * (255 - m)
        q == s \div 255
    IN  IF m \in {0, 255} THEN {q}
        ELSE IF s % 255 = 0 /\ q > 0 THEN {q - 1, q}
        ELSE {q}

\* the uint8 values (warped_face * mask_f + target_img * (1.0 - mask_f)) can
\* come to in one channel of one pixel, mask_f being float32(m) / 255.0.
\* With s = f*m + t*(255 - m) the real-number value is s/255.  For m = 0 and
\* m = 255 the weights are the floats 0.0 and 1.0, both products and the sum
\* are exact, and astype(uint8) gives s/255.  For any other m the weights are
\* rounded; the float32 sum is within 1e-4 of s/255, so truncation gives
\* floor(s/255), except that a value that should be a whole number q >= 1 may
\* come out just below it and truncate to q - 1.
BlendValues(f, m, t) ==
    LET s == f * m + t * (255 - m)
        q == s \div 255
    IN  IF m \in {0, 255} THEN {q}
        ELSE IF s % 255 = 0 /\ q > 0 THEN {q - 1, q}
        ELSE {q}

\* numpy broadcasting of one axis: equal lengths, or one of them 1; 0 if neither
BDim(a, b) == IF a = b THEN a ELSE IF a = 1 THEN b ELSE IF b = 1 THEN a ELSE 0

\* the element of array a that numpy pairs with position p of the result
At(a, p) == a.px[<<IF a.rows = 1 THEN 1 ELSE p[1], IF a.cols = 1 THEN 1 ELSE p[2]>>]

\* the uint8 pixels the blend can produce at position p of the result
PixelOutcomes(warped_face, warped_mask, target_img, p) ==
    LET f == At(warped_face, p)
        m == At(warped_mask, p)
        t == At(target_img, p)
    IN  { c \in [DOMAIN t -> UNION { BlendValues(f[k], m, t[k]) : k \in DOMAIN t }] :
            \A k \in DOMAIN t : c[k] \in BlendValues(f[k], m, t[k]) }

\* the pixel arrays over the positions S, one outcome chosen at every position
RECURSIVE PixelArrays(_, _, _, _)
PixelArrays(warped_face, warped_mask, target_img, S) ==
    IF S = {}
    THEN { [q \in {} |-> <<>>] }
    ELSE LET p == CHOOSE q \in S : TRUE
         IN  { [q \in S |-> IF q = p THEN c ELSE g[q]] :
                 c \in PixelOutcomes(warped_face, warped_mask, target_img, p),
                 g \in PixelArrays(warped_face, warped_mask, target_img, S \ {p}) }

\* lines 176-179: every array the blend can produce, or ValueError
Blend(warped_face, warped_mask, target_img) ==
    LET rows == BDim(BDim(warped_face.rows, warped_mask.rows), target_img.rows)
        cols == BDim(BDim(warped_face.cols, warped_mask.cols), target_img.cols)
    IN  IF rows = 0 \/ cols = 0
        THEN {ValueError}
        ELSE { [rows |-> rows, cols |-> cols, px |-> g] :
                 g \in PixelArrays(warped_face, warped_mask, target_img, Pos(rows, cols)) }

BlendFinal ==
    /\ b_pc = "blend"
    /\ b_final' \in Blend(b_warped_face, b_warped_mask, b_target_img)
    /\ b_pc' = "done"
    /\ UNCHANGED <<b_target_img, b_swapped, b_warped_face, b_warped_mask>>

BlendOnly == UNCHANGED <<pipeVars, alignVars, setupVars>>

NextBlend ==
    \/ BlendWarp /\ BlendOnly
    \/ BlendFinal /\ BlendOnly

SpecBlend == InitBlend /\ [][NextBlend]_vars

\* C5: after the blend, the output has the target image's height and width, and
\* at every pixel where the warped mask is 0 every channel of the output equals
\* the target's, whatever the warped face holds there.
C5_MaskZeroKeepsTarget ==
    b_pc = "done" =>
        /\ b_final # ValueError
        /\ b_final.rows = b_target_img.rows
        /\ b_final.cols = b_target_img.cols
        /\ \A p \in DOMAIN b_target_img.px :
              b_warped_mask.px[p] = 0 =>
                  \A k \in DOMAIN b_target_img.px[p] :
                      b_final.px[p][k] = b_target_img.px[p][k]

\* a blended image with a pixel of mask 0 under a face value unlike the target's,
\* next to a pixel the face shows through
C5_Witness ==
    /\ b_pc = "done"
    /\ \E p \in DOMAIN b_target_img.px :
          /\ b_warped_mask.px[p] = 0
          /\ \A k \in 1..3 : b_warped_face.px[p][k] # b_target_img.px[p][k]
    /\ \E p \in DOMAIN b_target_img.px :
          /\ b_warped_mask.px[p] # 0
          /\ b_final.px[p] # b_target_img.px[p]


(***************************************************************************)
(* SpecSetup: setup_models.py.  The __main__ loop calls download_file for  *)
(* each entry of MODELS; a request, a status check, the open and every     *)
(* chunk may raise.                                                        *)
(***************************************************************************)
\* the file names of MODELS, in the order the loop visits them
MODELS == <<"inswapper_128.onnx", "w600k_r50.onnx">>

ModelNames == { MODELS[i] : i \in DOMAIN MODELS }

\* a file that was in models/ before the script ran
OldFile == [data |-> <<"old">>]

\* the chunks iter_content yields: "" is an empty (keep-alive) chunk
Chunks == {"", "x"}

Bodies == UNION { [1..n -> Chunks] : n \in 0..MaxChunks }

\* the file being downloaded by the current call
Current == MODELS[d_idx]

InitSetup ==
    /\ d_pc = "enter"
    /\ d_fs \in [ModelNames -> {None, OldFile}]
    /\ d_idx = 1
    /\ d_entry = None
    /\ d_body = <<>>
    /\ d_sent = 0
    /\ d_requests = <<>>
    /\ d_outcome = "none"
    /\ PipeIdle /\ AlignIdle /\ BlendIdle

\* lines 13-17: the call starts; an existing file ends it at once
DlEnter ==
    /\ d_pc = "enter"
    /\ d_entry' = [fs |-> d_fs, requests |-> Len(d_requests)]
    /\ d_body' = <<>>
    /\ d_sent' = 0
    /\ IF d_fs[Current] # None
       THEN d_pc' = "return" /\ d_outcome' = "exists"
       ELSE d_pc' = "request" /\ d_outcome' = "none"
    /\ UNCHANGED <<d_fs, d_idx, d_requests>>

\* line 19
DlRequest ==
    /\ d_pc = "request"
    /\ d_requests' = Append(d_requests, Current)
    /\ \E ok \in BOOLEAN, body \in Bodies :
          IF ok
          THEN d_body' = body /\ d_pc' = "status"
          ELSE d_body' = <<>> /\ d_pc' = "except"
    /\ UNCHANGED <<d_fs, d_idx, d_entry, d_sent, d_outcome>>

\* lines 20-21: raise_for_status, int(content-length)
DlStatus ==
    /\ d_pc = "status"
    /\ \E ok \in BOOLEAN : d_pc' = IF ok THEN "open" ELSE "except"
    /\ UNCHANGED <<d_fs, d_idx, d_entry, d_body, d_sent, d_requests, d_outcome>>

\* line 23: open(filepath, 'wb') creates the empty file, or raises
DlOpen ==
    /\ d_pc = "open"
    /\ \E ok \in BOOLEAN :
          IF ok
          THEN d_fs' = [d_fs EXCEPT ![Current] = [data |-> <<>>]] /\ d_pc' = "write"
          ELSE d_fs' = d_fs /\ d_pc' = "except"
    /\ UNCHANGED <<d_idx, d_entry, d_body, d_sent, d_requests, d_outcome>>

\* lines 24-26, one chunk: reading it or writing it may raise; the with block
\* then closes the file as it is
DlChunk ==
    /\ d_pc = "write"
    /\ d_sent < Len(d_body)
    /\ \E ok \in BOOLEAN :
          IF ok
          THEN LET chunk == d_body[d_sent + 1]
               IN  /\ d_fs' = IF chunk # ""
                              THEN [d_fs EXCEPT ![Current].data = Append(@, chunk)]
                              ELSE d_fs
                   /\ d_sent' = d_sent + 1
                   /\ d_pc' = "write"
          ELSE d_fs' = d_fs /\ d_sent' = d_sent /\ d_pc' = "except"
    /\ UNCHANGED <<d_idx, d_entry, d_body, d_requests, d_outcome>>

\* line 27: the response is exhausted, the file is closed
DlDone ==
    /\ d_pc = "write"
    /\ d_sent = Len(d_body)
    /\ d_outcome' = "downloaded"
    /\ d_pc' = "return"
    /\ UNCHANGED <<d_fs, d_idx, d_entry, d_body, d_sent, d_requests>>

\* faulty variant: the except block without os.remove
DlExceptKeepsFile ==
    /\ d_pc = "except"
    /\ d_outcome' = "failed"
    /\ d_pc' = "return"
    /\ UNCHANGED <<d_fs, d_idx, d_entry, d_body, d_sent, d_requests>>

\* lines 28-31
DlExcept ==
    /\ d_pc = "except"
    /\ d_fs' = IF d_fs[Current] # None THEN [d_fs EXCEPT ![Current] = None] ELSE d_fs
    /\ d_outcome' = "failed"
    /\ d_pc' = "return"
    /\ UNCHANGED <<d_idx, d_entry, d_body, d_sent, d_requests>>

\* lines 38-40: the call has returned; the loop goes on or the script ends
DlNext ==
    /\ d_pc = "return"
    /\ IF d_idx < Len(MODELS)
       THEN d_idx' = d_idx + 1 /\ d_pc' = "enter"
       ELSE d_idx' = d_idx /\ d_pc' = "finished"
    /\ UNCHANGED <<d_fs, d_entry, d_body, d_sent, d_requests, d_outcome>>

SetupOnly == UNCHANGED <<pipeVars, alignVars, blendVars>>

NextSetup ==
    \/ DlEnter /\ SetupOnly
    \/ DlRequest /\ SetupOnly
    \/ DlStatus /\ SetupOnly
    \/ DlOpen /\ SetupOnly
    \/ DlChunk /\ SetupOnly
    \/ DlDone /\ SetupOnly
    \/ DlExcept /\ SetupOnly
    \/ DlNext /\ SetupOnly

SpecSetup == InitSetup /\ [][NextSetup]_vars

\* the non-empty chunks of a response body, in order
Payload(body) == SelectSeq(body, LAMBDA c : c # "")

\* C10: when a call download_file(url, filepath) returns: if the file existed
\* when the call started, no request was made and the file is as it was;
\* otherwise either the download completed and the file exists (holding the
\* response's chunks), or it failed at the request, the status check, the open
\* or a chunk and no file is left at filepath.  No call touches the other file.
C10_DownloadLeavesNoPartialFile ==
    d_pc = "return" =>
        /\ d_entry.fs[Current] # None =>
              /\ d_outcome = "exists"
              /\ Len(d_requests) = d_entry.requests
              /\ d_fs[Current] = d_entry.fs[Current]
        /\ d_entry.fs[Current] = None =>
              \/ /\ d_outcome = "downloaded"
                 /\ d_fs[Current] # None
                 /\ d_fs[Current].data = Payload(d_body)
                 /\ Len(d_requests) = d_entry.requests + 1
              \/ /\ d_outcome = "failed"
                 /\ d_fs[Current] = None
        /\ \A n \in ModelNames \ {Current} : d_fs[n] = d_entry.fs[n]

\* a download that failed after a chunk had been written to the new file
C10_Witness ==
    /\ d_pc = "return"
    /\ d_outcome = "failed"
    /\ d_entry.fs[Current] = None
    /\ d_sent >= 1
    /\ \E i \in 1..d_sent : d_body[i] # ""
    /\ d_fs[Current] = None

====
